---- MODULE Spec2Model ----
(***************************************************************************)
(* Model of the asset pipeline's change-detection engine                   *)
(* (asset_pipeline/core/datafiles/metadata.py, serialization.py) and of    *)
(* the incremental scan/process loop (processors/sdf/processor.py,         *)
(* processors/mips/processor.py).                                          *)
(*                                                                         *)
(* The file system is the state: for every asset its source file, its      *)
(* side-car metadata file (.gsam) and its output file.  One run of the     *)
(* loop is a sequence of steps (scan of a directory pair, transform of a   *)
(* pending asset, refresh of its metadata); edits of source files by the   *)
(* user interleave with those steps.                                       *)
(***************************************************************************)
EXTENDS Integers, Sequences, FiniteSets, TLC

(* ------------------------------ bounds --------------------------------- *)
\* Largest height and width of a mipmap atlas, and largest max_resolution.
MaxAtlas ==
    8
MaxResolution ==
    40
\* Largest height and width of a mip level, and longest mip list.
MaxDim ==
    3
MaxMips ==
    3
NumAssets ==
    2
NumPairs ==
    2
MaxContent ==
    2
MaxEdits ==
    1

Assets ==
    1..NumAssets
Pairs ==
    1..NumPairs
Contents ==
    1..MaxContent

\* A source, metadata or output file that does not exist.
Absent ==
    0

\* The configured directory pair whose source_dir holds asset a: two assets
\* per source directory, directories filled in configuration order.
PairOf(a) ==
    (((a - 1) \div 2) % NumPairs) + 1

(* --------------------- values in memory and on disk -------------------- *)
\* In memory an exported file is a Path or (after a failed transform) None.
PathVal(n) ==
    [k |-> "Path", n |-> n]
NonePy ==
    [k |-> "None", n |-> 0]
\* In a JSON document it is a string or null.
JStr(n) ==
    [k |-> "str", n |-> n]
JNull ==
    [k |-> "null", n |-> 0]

\* output_dir / (PREFIX + stem + postfix + EXT): one output path per asset.
OutPath(a) ==
    PathVal(a)

\* The None a field holds after deserialize_dataclass when the JSON object has
\* no such key, or has null for it (data.get(field.name)).
NoneValue ==
    0

\* A file at a metadata path is a record: whether it exists, whether its text
\* is a JSON object, and the values of the object's keys.
\* NoFile: the metadata path has no file.
NoFile ==
    [exists |-> FALSE, json |-> FALSE, uuid |-> 0, checksum |-> 0,
     exported_files |-> <<>>, version |-> 0]

\* file_path.open("w") has run and json.dump has not, or not to its end: the
\* file exists and its text is empty or a prefix of a JSON document.
OpenedFile ==
    [exists |-> TRUE, json |-> FALSE, uuid |-> 0, checksum |-> 0,
     exported_files |-> <<>>, version |-> 0]

\* No record (a call raised, or nothing was returned yet).
NoRecord ==
    [uuid |-> 0, checksum |-> 0, exported_files |-> <<>>, version |-> 0]

\* SHA-256 of the file content: collision free on the contents of the model.
calculate_checksum(c) ==
    2 * c + 1

\* Mutant: the uuid is generated once, not once per record.
create_metadata_same_uuid(c, u) ==
    [uuid |-> 1, checksum |-> calculate_checksum(c), exported_files |-> <<>>, version |-> 1]

\* AssetMetadata(uuid=str(uuid4()), checksum=calculate_checksum(asset)),
\* exported_files and version take their defaults.
create_metadata(c, u) ==
    [uuid |-> u, checksum |-> calculate_checksum(c), exported_files |-> <<>>, version |-> 1]

\* A Path becomes its string, a list is converted item by item, anything
\* else (None) is passed through and dumped as null.
convert_for_serialization(v) ==
    IF v.k = "Path" THEN JStr(v.n) ELSE JNull

serialize_dataclass(md) ==
    [uuid |-> md.uuid,
     checksum |-> md.checksum,
     exported_files |-> [i \in DOMAIN md.exported_files |->
                            convert_for_serialization(md.exported_files[i])],
     version |-> md.version]

\* save_metadata: the file at the metadata path is replaced by the document.
save_metadata(md) ==
    LET d == serialize_dataclass(md)
    IN  [exists |-> TRUE, json |-> TRUE, uuid |-> d.uuid, checksum |-> d.checksum,
         exported_files |-> d.exported_files, version |-> d.version]

\* [Path(item) for item in value]: Path(None) raises TypeError.
convert_to_field_raises(f) ==
    \E i \in DOMAIN f.exported_files : f.exported_files[i].k = "null"

\* The exception load_metadata raises on file f, "none" if it returns:
\* json.load raises JSONDecodeError on a text that is no JSON document.
load_metadata_exc(f) ==
    IF ~f.json THEN "JSONDecodeError"
    ELSE IF convert_to_field_raises(f) THEN "TypeError"
    ELSE "none"

\* load_metadata of a document whose conversion does not raise: a key the
\* object lacks is read with data.get and comes out as None; nothing is
\* validated.
load_metadata(f) ==
    [uuid |-> f.uuid,
     checksum |-> f.checksum,
     exported_files |-> [i \in DOMAIN f.exported_files |-> PathVal(f.exported_files[i].n)],
     version |-> f.version]

\* Mutant: the updated record is built anew, with a newly generated uuid,
\* where the code copies the old record.
replace_metadata_fresh_uuid(md, files, cs) ==
    [uuid |-> md.uuid + NumAssets, checksum |-> cs, exported_files |-> files,
     version |-> md.version]

\* dc.replace(metadata, exported_files=..., checksum=...)
replace_metadata(md, files, cs) ==
    [uuid |-> md.uuid, checksum |-> cs, exported_files |-> files, version |-> md.version]

\* Mutant: a record that exists counts as up to date; the content is not hashed.
get_asset_status_no_hash(f, c) ==
    IF ~f.exists THEN "NEW"
    ELSE IF load_metadata_exc(f) # "none" THEN load_metadata_exc(f)
    ELSE IF c = Absent THEN "FileNotFoundError"
    ELSE "UNCHANGED"

\* get_asset_status on metadata file f and asset content c.
get_asset_status(f, c) ==
    IF ~f.exists THEN "NEW"
    ELSE IF load_metadata_exc(f) # "none" THEN load_metadata_exc(f)
    ELSE IF c = Absent THEN "FileNotFoundError"
    ELSE IF calculate_checksum(c) # load_metadata(f).checksum THEN "MODIFIED"
    ELSE "UNCHANGED"

\* Mutant: the status check creates the record of an asset that has none,
\* as retrieve_metadata does.
get_asset_status_creating(f, c, u) ==
    IF ~f.exists /\ c # Absent
    THEN [exc |-> "none", file |-> save_metadata(create_metadata(c, u)),
          ret |-> NoRecord, status |-> "NEW", writes |-> 1]
    ELSE [exc |-> "none", file |-> f, ret |-> NoRecord,
          status |-> get_asset_status(f, c), writes |-> 0]

\* One call of get_asset_status as a client sees it: the exception raised,
\* the metadata file afterwards, the status returned, the number of writes.
get_asset_status_call(f, c, u) ==
    LET st == get_asset_status(f, c)
    IN  [exc |-> IF st \in {"NEW", "MODIFIED", "UNCHANGED"} THEN "none" ELSE st,
         file |-> f, ret |-> NoRecord, status |-> st, writes |-> 0]

\* Mutant: the metadata file is looked up before the asset is checked, so the
\* record of an asset that is gone is loaded and returned.
retrieve_metadata_unchecked(f, c, u) ==
    IF f.exists
    THEN IF load_metadata_exc(f) # "none"
         THEN [exc |-> load_metadata_exc(f), file |-> f, ret |-> NoRecord, writes |-> 0]
         ELSE [exc |-> "none", file |-> f, ret |-> load_metadata(f), writes |-> 0]
    ELSE IF c = Absent
    THEN [exc |-> "FileNotFoundError", file |-> f, ret |-> NoRecord, writes |-> 0]
    ELSE LET md == create_metadata(c, u)
         IN  [exc |-> "none", file |-> save_metadata(md), ret |-> md, writes |-> 1]

\* retrieve_metadata: the exception raised ("none" if none), the metadata
\* file afterwards, the record returned and the number of writes.
retrieve_metadata(f, c, u) ==
    IF c = Absent
    THEN [exc |-> "FileNotFoundError", file |-> f, ret |-> NoRecord, writes |-> 0]
    ELSE IF f.exists
    THEN IF load_metadata_exc(f) # "none"
         THEN [exc |-> load_metadata_exc(f), file |-> f, ret |-> NoRecord, writes |-> 0]
         ELSE [exc |-> "none", file |-> f, ret |-> load_metadata(f), writes |-> 0]
    ELSE LET md == create_metadata(c, u)
         IN  [exc |-> "none", file |-> save_metadata(md), ret |-> md, writes |-> 1]

\* Mutant: only the overrides are applied; the checksum is not recomputed.
refresh_metadata_stale_checksum(f, c, u, files) ==
    LET r == retrieve_metadata(f, c, u)
    IN  IF r.exc # "none" THEN r
        ELSE LET updated == replace_metadata(r.ret, files, r.ret.checksum)
             IN  [exc |-> "none", file |-> save_metadata(updated), ret |-> updated,
                  writes |-> r.writes + 1]

\* refresh_metadata(asset_path, exported_files=files)
refresh_metadata(f, c, u, files) ==
    LET r == retrieve_metadata(f, c, u)
    IN  IF r.exc # "none" THEN r
        ELSE LET updated == replace_metadata(r.ret, files, calculate_checksum(c))
             IN  [exc |-> "none", file |-> save_metadata(updated), ret |-> updated,
                  writes |-> r.writes + 1]

(* ------------------------------- state --------------------------------- *)
VARIABLES
    content,        \* content[a]: bytes of the source asset, Absent if no such file
    meta,           \* meta[a]: the JSON document at get_metadata_path(a), or NoFile
    outFile,        \* outFile[a]: the source content the output file was made from
    nextUuid,       \* the next value uuid4() yields
    isDir,          \* isDir[p]: source_dir of pair p is a directory
    pc,             \* position of the loop
    pairIdx,        \* index of the current element of config.processing_paths
    pending_files,  \* pending_files of the current pair
    idx,            \* position of the inner loop in pending_files
    exported_path,  \* exported_path returned by the transform
    classified,     \* classified[a]: status get_asset_status gave a in this run
    failed,         \* assets whose transform failed in this run
    refreshed,      \* assets refresh_metadata was called for in this run
    metaWrites,     \* metaWrites[a]: writes of a's metadata file in this run
    outWritten,     \* assets whose output file was written in this run
    crash,          \* where an exception left the loop ("none" if none did)
    calm,           \* 0: a source file was edited since the current run started;
                    \* 2: none was, nor during the previous run, which completed;
                    \* 1: otherwise
    editsLeft,      \* source-file edits the user may still make
    runStart,       \* how the current run started: fresh, no metadata file
                    \* existed; recovering, an earlier run was interrupted
    call            \* the last direct call of the metadata API by a client:
                    \* its arguments, the disk it met and its outcome

vars ==
    <<content, meta, outFile, nextUuid, isDir, pc, pairIdx, pending_files, idx,
      exported_path, classified, failed, refreshed, metaWrites, outWritten,
      crash, calm, editsLeft, runStart, call>>

diskVars ==
    <<content, meta, outFile, nextUuid>>
loopVars ==
    <<pc, pairIdx, pending_files, idx, exported_path>>
runHistory ==
    <<classified, failed, refreshed, metaWrites, outWritten, crash>>

\* Outcomes of one call of the per-asset transform (svg_to_sdf, mips_to_dds):
\*   "ok"       the output file is written and its path returned
\*   "none"     None is returned (numpy_to_image gave None; QImage isNull)
\*   "savefail" save_image returned False: logged, the path is returned anyway
\*   "raise"    an exception leaves the transform (image_to_numpy(None);
\*              ValueError of save_dds_from_mipmaps)
TransformOutcomes ==
    {"ok", "none", "savefail", "raise"}

\* Status of asset a on the current disk.
Status(a) ==
    get_asset_status(meta[a], content[a])

\* list(source_dir.glob(pattern)): the existing assets of pair p.  The order of
\* a directory listing is the platform's; the assets of the model are
\* interchangeable, so the listing is taken in path order.
Glob(p) ==
    LET S == {a \in Assets : PairOf(a) = p /\ content[a] # Absent}
    IN  {f \in [1..Cardinality(S) -> S] : \A i, j \in DOMAIN f : i < j => f[i] < f[j]}

\* Mutant: every classified file is appended to pending_files.
IsPending_any_status(a) ==
    Status(a) \in {"NEW", "MODIFIED", "UNCHANGED"}

\* `if status in status_counts`, status_counts having the keys NEW and MODIFIED.
IsPending(a) ==
    Status(a) \in {"NEW", "MODIFIED"}

\* Mutant: every enumerated file is appended, whatever its status.
PendingOf_all(files) ==
    files

\* Mutant: pending_files.insert(0, path) where the code appends.
PendingOf_prepend(files) ==
    LET s == SelectSeq(files, IsPending)
    IN  [i \in 1..Len(s) |-> s[Len(s) + 1 - i]]

\* status_counts after the classify loop: the number of files per pending status.
status_counts(files) ==
    [st \in {"NEW", "MODIFIED"} |->
        Cardinality({i \in DOMAIN files : Status(files[i]) = st})]

\* The classify loop: files whose status is NEW or MODIFIED, in order.
PendingOf(files) ==
    SelectSeq(files, IsPending)

\* Index of the first file whose classification raises, 0 if none does.
FirstRaise(files) ==
    LET R == {i \in DOMAIN files : Status(files[i]) \notin {"NEW", "MODIFIED", "UNCHANGED"}}
    IN  IF R = {} THEN 0 ELSE CHOOSE i \in R : \A j \in R : i <= j

\* No direct call of the metadata API was made yet.
NoCall ==
    [op |-> "none", a |-> 0, c |-> Absent, pre |-> NoFile, files |-> <<>>,
     exc |-> "none", ret |-> NoRecord, status |-> "-", writes |-> 0]

Init ==
    /\ content = [a \in Assets |-> 1]
    /\ meta = [a \in Assets |-> NoFile]
    /\ outFile = [a \in Assets |-> Absent]
    /\ nextUuid = 1
    /\ isDir \in [Pairs -> BOOLEAN]
    /\ pc = "idle"
    /\ pairIdx = 1
    /\ pending_files = <<>>
    /\ idx = 1
    /\ exported_path = NonePy
    /\ classified = [a \in Assets |-> "-"]
    /\ failed = {}
    /\ refreshed = {}
    /\ metaWrites = [a \in Assets |-> 0]
    /\ outWritten = {}
    /\ crash = "none"
    /\ calm = 1
    /\ editsLeft = MaxEdits
    /\ runStart = [fresh |-> TRUE, recovering |-> FALSE]
    /\ call = NoCall

(* ------------------------------ the loop ------------------------------- *)
\* process_sdf(config) / process_mips(config) is called.
StartRun ==
    /\ pc \in {"idle", "done", "crashed"}
    /\ pc' = "scan"
    /\ pairIdx' = 1
    /\ pending_files' = <<>>
    /\ idx' = 1
    /\ exported_path' = NonePy
    /\ classified' = [a \in Assets |-> "-"]
    /\ failed' = {}
    /\ refreshed' = {}
    /\ metaWrites' = [a \in Assets |-> 0]
    /\ outWritten' = {}
    /\ crash' = "none"
    /\ calm' = IF pc = "done" /\ calm >= 1 THEN 2 ELSE 1
    /\ runStart' = [fresh |-> \A a \in Assets : ~meta[a].exists,
                    recovering |-> runStart.recovering
                                      \/ (pc = "crashed" /\ crash = "killed")]
    /\ UNCHANGED <<diskVars, isDir, editsLeft, call>>

\* Mutant: `return` where the code has `continue`.
NextPair_abort ==
    /\ pending_files' = <<>>
    /\ idx' = 1
    /\ exported_path' = NonePy
    /\ pc' = "done"
    /\ pairIdx' = pairIdx

\* `continue` of the outer loop, or its end.
NextPair ==
    /\ pending_files' = <<>>
    /\ idx' = 1
    /\ exported_path' = NonePy
    /\ IF pairIdx = NumPairs
       THEN pc' = "done" /\ pairIdx' = pairIdx
       ELSE pc' = "scan" /\ pairIdx' = pairIdx + 1

\* One iteration of the outer loop up to the inner loop: validate the source
\* directory, enumerate it, classify every file.
ScanPair ==
    /\ pc = "scan"
    /\ IF ~isDir[pairIdx]
       THEN /\ NextPair
            /\ UNCHANGED <<classified, crash>>
       ELSE \E files \in Glob(pairIdx) :
              LET r == FirstRaise(files)
                  seen == IF r = 0 THEN {files[i] : i \in DOMAIN files}
                          ELSE {files[i] : i \in 1..(r - 1)}
              IN  /\ classified' = [a \in Assets |->
                                      IF a \in seen THEN Status(a) ELSE classified[a]]
                  /\ IF r # 0
                     THEN /\ pc' = "crashed"
                          /\ crash' = "classify"
                          /\ UNCHANGED <<pairIdx, pending_files, idx, exported_path>>
                     ELSE /\ crash' = crash
                          /\ IF PendingOf(files) = <<>>
                             THEN NextPair
                             ELSE /\ pc' = "transform"
                                  /\ pending_files' = PendingOf(files)
                                  /\ idx' = 1
                                  /\ UNCHANGED <<pairIdx, exported_path>>
    /\ UNCHANGED <<diskVars, isDir, failed, refreshed, metaWrites, outWritten,
                   calm, editsLeft, runStart, call>>

\* exported_path = svg_to_sdf(...) / mips_to_dds(...) for pending_files[idx],
\* with outcome o.
TransformStep(o) ==
    /\ pc = "transform"
    /\ LET a == pending_files[idx]
       IN  /\ content[a] = Absent => o \in {"none", "raise"}
           /\ outFile' = IF o = "ok" THEN [outFile EXCEPT ![a] = content[a]] ELSE outFile
           /\ outWritten' = IF o = "ok" THEN outWritten \cup {a} ELSE outWritten
           /\ failed' = IF o = "ok" THEN failed ELSE failed \cup {a}
           /\ exported_path' = IF o \in {"ok", "savefail"} THEN OutPath(a) ELSE NonePy
           /\ pc' = IF o = "raise" THEN "crashed" ELSE "refresh"
           /\ crash' = IF o = "raise" THEN "transform" ELSE crash
    /\ UNCHANGED <<content, meta, nextUuid, isDir, pairIdx, pending_files, idx,
                   classified, refreshed, metaWrites, calm, editsLeft, runStart, call>>

Transform ==
    \E o \in TransformOutcomes : TransformStep(o)

\* metadata.refresh_metadata(path, exported_files=[exported_path]) and the
\* step of the inner loop.
Refresh ==
    /\ pc = "refresh"
    /\ LET a == pending_files[idx]
           r == refresh_metadata(meta[a], content[a], nextUuid, <<exported_path>>)
       IN  /\ refreshed' = refreshed \cup {a}
           /\ meta' = [meta EXCEPT ![a] = r.file]
           /\ metaWrites' = [metaWrites EXCEPT ![a] = @ + r.writes]
           /\ nextUuid' = IF meta[a].exists \/ r.exc # "none" THEN nextUuid ELSE nextUuid + 1
           /\ IF r.exc # "none"
              THEN /\ pc' = "crashed"
                   /\ crash' = "refresh"
                   /\ UNCHANGED <<pairIdx, pending_files, idx, exported_path>>
              ELSE /\ crash' = crash
                   /\ IF idx < Len(pending_files)
                      THEN /\ idx' = idx + 1
                           /\ pc' = "transform"
                           /\ exported_path' = NonePy
                           /\ UNCHANGED <<pairIdx, pending_files>>
                      ELSE NextPair
    /\ UNCHANGED <<content, outFile, isDir, classified, failed, outWritten,
                   calm, editsLeft, runStart, call>>

(* ------------------------------ the user ------------------------------- *)
\* The user saves new content to a source asset (or creates the asset).
EditAsset ==
    /\ editsLeft > 0
    /\ \E a \in Assets, c \in Contents :
         /\ c # content[a]
         /\ content' = [content EXCEPT ![a] = c]
    /\ calm' = 0
    /\ editsLeft' = editsLeft - 1
    /\ UNCHANGED <<meta, outFile, nextUuid, isDir, loopVars, runHistory, runStart, call>>

\* The user removes a source asset; its metadata and output files stay.
RemoveAsset ==
    /\ editsLeft > 0
    /\ \E a \in Assets :
         /\ content[a] # Absent
         /\ content' = [content EXCEPT ![a] = Absent]
    /\ calm' = 0
    /\ editsLeft' = editsLeft - 1
    /\ UNCHANGED <<meta, outFile, nextUuid, isDir, loopVars, runHistory, runStart, call>>

Next ==
    \/ StartRun
    \/ ScanPair
    \/ Transform
    \/ Refresh
    \/ EditAsset
    \/ RemoveAsset

Spec ==
    Init /\ [][Next]_vars

TypeOK ==
    /\ content \in [Assets -> Contents \cup {Absent}]
    /\ pc \in {"idle", "scan", "transform", "refresh", "done", "crashed"}
    /\ pairIdx \in Pairs
    /\ nextUuid \in 1..(NumAssets + 1)
    /\ editsLeft \in 0..MaxEdits
    /\ runStart \in [fresh : BOOLEAN, recovering : BOOLEAN]
    /\ call = NoCall

(* ---------------------------- interruption ----------------------------- *)
\* Where the process can be stopped inside refresh_metadata, between two
\* operations on the metadata file:
\*   "create_opened"   in save_json of retrieve_metadata, after open("w")
\*   "created"         after retrieve_metadata saved the record it created,
\*                     before refresh_metadata saves the updated one
\*   "refresh_opened"  in save_json of refresh_metadata, after open("w")
InterruptPoints ==
    {"create_opened", "created", "refresh_opened"}

\* The metadata file left behind when refresh_metadata is stopped at point.
refresh_metadata_stopped(f, c, u, point) ==
    IF point = "created" THEN retrieve_metadata(f, c, u).file ELSE OpenedFile

\* The process is stopped (killed, power loss) between two steps of the loop.
Interrupt ==
    /\ pc \in {"scan", "transform", "refresh"}
    /\ pc' = "crashed"
    /\ crash' = "killed"
    /\ UNCHANGED <<diskVars, isDir, pairIdx, pending_files, idx, exported_path,
                   classified, failed, refreshed, metaWrites, outWritten, calm,
                   editsLeft, runStart, call>>

\* The process is stopped inside refresh_metadata for pending_files[idx].
InterruptRefresh ==
    /\ pc = "refresh"
    /\ LET a == pending_files[idx]
       IN  /\ retrieve_metadata(meta[a], content[a], nextUuid).exc = "none"
           /\ \E point \in InterruptPoints :
                 /\ point \in {"create_opened", "created"} => ~meta[a].exists
                 /\ meta' = [meta EXCEPT ![a] =
                               refresh_metadata_stopped(@, content[a], nextUuid, point)]
           /\ nextUuid' = IF meta[a].exists THEN nextUuid ELSE nextUuid + 1
           /\ refreshed' = refreshed \cup {a}
    /\ pc' = "crashed"
    /\ crash' = "killed"
    /\ UNCHANGED <<content, outFile, isDir, pairIdx, pending_files, idx,
                   exported_path, classified, failed, metaWrites, outWritten, calm,
                   editsLeft, runStart, call>>

\* A transform that succeeds.
TransformSucceeds ==
    TransformStep("ok")

\* Runs whose transforms succeed, any of which may be interrupted.
NextCrash ==
    \/ StartRun
    \/ ScanPair
    \/ TransformSucceeds
    \/ Refresh
    \/ EditAsset
    \/ RemoveAsset
    \/ Interrupt
    \/ InterruptRefresh

SpecCrash ==
    Init /\ [][NextCrash]_vars

(* --------------------------- the metadata API -------------------------- *)
\* A client (a processor, a test) calls the functions of metadata.py directly,
\* on a disk an earlier run of the loop left behind.

\* The overrides refresh_metadata may be given for asset a: no exported file,
\* the output path of a, or the None of a failed transform.
Overrides(a) ==
    {<<>>, <<OutPath(a)>>, <<NonePy>>}

\* The metadata file an earlier run left for asset a, whose content then was
\* the last one of Contents: none, the record of a successful transform, or
\* the record written after a transform that returned None.
StoredKinds ==
    {"none", "ok", "null"}
StoredFile(a, kind) ==
    IF kind = "none" THEN NoFile
    ELSE save_metadata(replace_metadata(create_metadata(MaxContent, a),
                                        <<IF kind = "ok" THEN OutPath(a) ELSE NonePy>>,
                                        calculate_checksum(MaxContent)))

\* The asset now has the first content, or is gone.
InitApi ==
    /\ content \in [Assets -> {1, Absent}]
    /\ \E k \in [Assets -> StoredKinds] : meta = [a \in Assets |-> StoredFile(a, k[a])]
    /\ outFile = [a \in Assets |-> Absent]
    /\ nextUuid = NumAssets + 1
    /\ isDir = [p \in Pairs |-> TRUE]
    /\ pc = "idle"
    /\ pairIdx = 1
    /\ pending_files = <<>>
    /\ idx = 1
    /\ exported_path = NonePy
    /\ classified = [a \in Assets |-> "-"]
    /\ failed = {}
    /\ refreshed = {}
    /\ metaWrites = [a \in Assets |-> 0]
    /\ outWritten = {}
    /\ crash = "none"
    /\ calm = 1
    /\ editsLeft = 0
    /\ runStart = [fresh |-> FALSE, recovering |-> FALSE]
    /\ call = NoCall

\* What a call leaves unchanged.
callFrame ==
    <<content, outFile, isDir, loopVars, runHistory, calm, editsLeft, runStart>>

\* metadata.retrieve_metadata(asset_path)
CallRetrieve ==
    \E a \in Assets :
        LET r == retrieve_metadata(meta[a], content[a], nextUuid)
        IN  /\ meta' = [meta EXCEPT ![a] = r.file]
            /\ nextUuid' = IF r.file # meta[a] THEN nextUuid + 1 ELSE nextUuid
            /\ call' = [op |-> "retrieve", a |-> a, c |-> content[a], pre |-> meta[a],
                        files |-> <<>>, exc |-> r.exc, ret |-> r.ret, status |-> "-",
                        writes |-> r.writes]
            /\ UNCHANGED callFrame

\* metadata.refresh_metadata(asset_path, exported_files=files)
CallRefresh ==
    \E a \in Assets : \E files \in Overrides(a) :
        LET r == refresh_metadata(meta[a], content[a], nextUuid, files)
        IN  /\ meta' = [meta EXCEPT ![a] = r.file]
            /\ nextUuid' = IF meta[a].exists \/ r.exc # "none" THEN nextUuid
                           ELSE nextUuid + 1
            /\ call' = [op |-> "refresh", a |-> a, c |-> content[a], pre |-> meta[a],
                        files |-> files, exc |-> r.exc, ret |-> r.ret, status |-> "-",
                        writes |-> r.writes]
            /\ UNCHANGED callFrame

\* metadata.get_asset_status(asset_path)
CallStatus ==
    \E a \in Assets :
        LET r == get_asset_status_call(meta[a], content[a], nextUuid)
        IN  /\ meta' = [meta EXCEPT ![a] = r.file]
            /\ nextUuid' = IF r.file # meta[a] THEN nextUuid + 1 ELSE nextUuid
            /\ call' = [op |-> "status", a |-> a, c |-> content[a], pre |-> meta[a],
                        files |-> <<>>, exc |-> r.exc, ret |-> r.ret,
                        status |-> r.status, writes |-> r.writes]
            /\ UNCHANGED callFrame

NextApi ==
    \/ CallRetrieve
    \/ CallRefresh
    \/ CallStatus

SpecApi ==
    InitApi /\ [][NextApi]_vars

(* ------------------------ foreign metadata files ----------------------- *)
\* Metadata files the loop finds that no save_metadata of this program wrote
\* (edited by hand, merged, written by another tool): a well-formed JSON
\* object with every key, without "uuid", or without "checksum".
ForeignKinds ==
    {"none", "valid", "no_uuid", "no_checksum"}
ForeignFile(a, kind) ==
    IF kind = "none" THEN NoFile
    ELSE [exists |-> TRUE, json |-> TRUE,
          uuid |-> IF kind = "no_uuid" THEN NoneValue ELSE NumAssets + a,
          checksum |-> IF kind = "no_checksum" THEN NoneValue ELSE calculate_checksum(1),
          exported_files |-> <<convert_for_serialization(OutPath(a))>>,
          version |-> 1]

InitForeign ==
    /\ content = [a \in Assets |-> 1]
    /\ \E k \in [Assets -> ForeignKinds] : meta = [a \in Assets |-> ForeignFile(a, k[a])]
    /\ outFile = [a \in Assets |-> Absent]
    /\ nextUuid = 1
    /\ isDir = [p \in Pairs |-> TRUE]
    /\ pc = "idle"
    /\ pairIdx = 1
    /\ pending_files = <<>>
    /\ idx = 1
    /\ exported_path = NonePy
    /\ classified = [a \in Assets |-> "-"]
    /\ failed = {}
    /\ refreshed = {}
    /\ metaWrites = [a \in Assets |-> 0]
    /\ outWritten = {}
    /\ crash = "none"
    /\ calm = 1
    /\ editsLeft = MaxEdits
    /\ runStart = [fresh |-> FALSE, recovering |-> FALSE]
    /\ call = NoCall

SpecForeign ==
    InitForeign /\ [][Next]_vars

(* ----------------------- textures and conversion ----------------------- *)
\* The functions below the loop are pure or touch one file; a client calls
\* them with arguments drawn from bounded sets, the loop being idle.
Idle ==
    /\ content = [a \in Assets |-> 1]
    /\ meta = [a \in Assets |-> NoFile]
    /\ outFile = [a \in Assets |-> Absent]
    /\ nextUuid = 1
    /\ isDir = [p \in Pairs |-> TRUE]
    /\ pc = "idle"
    /\ pairIdx = 1
    /\ pending_files = <<>>
    /\ idx = 1
    /\ exported_path = NonePy
    /\ classified = [a \in Assets |-> "-"]
    /\ failed = {}
    /\ refreshed = {}
    /\ metaWrites = [a \in Assets |-> 0]
    /\ outWritten = {}
    /\ crash = "none"
    /\ calm = 1
    /\ editsLeft = 0
    /\ runStart = [fresh |-> TRUE, recovering |-> FALSE]

libFrame ==
    <<diskVars, isDir, loopVars, runHistory, calm, editsLeft, runStart>>

InitLib ==
    Idle /\ call = NoCall

\* A mip level is an array of shape (h, w, 4) and dtype uint8, as
\* image_to_numpy and slicing produce; only h and w vary.
Dims ==
    1..MaxDim
MipLevels ==
    [h : Dims, w : Dims]
MipLists ==
    UNION {[1..n -> MipLevels] : n \in 0..MaxMips}

\* A destination file: absent, or holding the mip levels written to it
\* (none right after open(filename, "wb")).
NoDds ==
    [exists |-> FALSE, mips |-> <<>>]
DdsFile(mipmaps) ==
    [exists |-> TRUE, mips |-> mipmaps]

\* max(1, n // 2)
HalfDim(n) ==
    IF n \div 2 >= 1 THEN n \div 2 ELSE 1

\* (expected_h, expected_w) after i - 1 rounds of the verification loop,
\* starting from the shape of mipmaps[0].
RECURSIVE ExpectedDims(_, _)
ExpectedDims(mipmaps, i) ==
    IF i = 1 THEN mipmaps[1]
    ELSE LET e == ExpectedDims(mipmaps, i - 1)
         IN  [h |-> HalfDim(e.h), w |-> HalfDim(e.w)]

\* Mutant: the destination is opened for writing before the list is checked.
save_dds_from_mipmaps_open_first(mipmaps, dest) ==
    IF mipmaps = <<>> \/ \E i \in 2..Len(mipmaps) : mipmaps[i] # ExpectedDims(mipmaps, i)
    THEN [exc |-> "ValueError", file |-> DdsFile(<<>>)]
    ELSE [exc |-> "none", file |-> DdsFile(mipmaps)]

\* save_dds_from_mipmaps(mipmaps, filename), dest being the file at filename:
\* the exception raised and the file afterwards.
save_dds_from_mipmaps(mipmaps, dest) ==
    IF mipmaps = <<>> THEN [exc |-> "ValueError", file |-> dest]
    ELSE IF \E i \in 2..Len(mipmaps) : mipmaps[i] # ExpectedDims(mipmaps, i)
    THEN [exc |-> "ValueError", file |-> dest]
    ELSE [exc |-> "none", file |-> DdsFile(mipmaps)]

\* dds.save_dds_from_mipmaps(mipmaps, filename)
CallSaveDds ==
    /\ call = NoCall
    /\ \E mipmaps \in MipLists, dest \in {NoDds, DdsFile(<<[h |-> 1, w |-> 1]>>)} :
        LET r == save_dds_from_mipmaps(mipmaps, dest)
        IN  /\ call' = [op |-> "save_dds", mipmaps |-> mipmaps, dest_pre |-> dest,
                        exc |-> r.exc, dest |-> r.file]
            /\ UNCHANGED libFrame

\* compute_sdf(channel, max_relative_distance, downsample_factor, threshold)
\* on a channel of shape (height, width): the exception raised and the shape
\* of the grid returned.  reshape() raises ValueError unless the new shape
\* holds exactly the height * width samples of sdf[:height, :width].
compute_sdf(height, width, downsample_factor) ==
    LET new_height == height \div downsample_factor
        new_width == width \div downsample_factor
    IN  IF new_height * downsample_factor * new_width * downsample_factor = height * width
        THEN [exc |-> "none", shape |-> <<new_height, new_width>>]
        ELSE [exc |-> "ValueError", shape |-> <<>>]

\* Input channels of an image of shape (height, width, 4), numbered from 1.
Channels ==
    1..4

\* cfg.SDF_CHANNEL_MAPPING, numbered from 1.
SDF_CHANNEL_MAPPING ==
    <<1, 2, 3, 4>>

\* A plane of a returned buffer: the SDF of input channel i, or all zero.
ZeroPlane ==
    0
SdfOf(i) ==
    i

\* analyze_image_channels: the channels whose minimum and maximum differ, in
\* ascending order.
RECURSIVE ContentChannels(_, _)
ContentChannels(has_content, i) ==
    IF i > 4 THEN <<>>
    ELSE (IF has_content[i] THEN <<i>> ELSE <<>>) \o ContentChannels(has_content, i + 1)

\* compute_multichannel_sdf(img_array, max_rel_distance, downsample_factor,
\* threshold): the exception raised and the buffer returned, a buffer being
\* its number of dimensions and its planes.  The function has no
\* channel_mapping parameter: the planes are packed in ascending order of
\* their input channel.
compute_multichannel_sdf(has_content, height, width, downsample_factor, channel_mapping) ==
    LET channels_sdf == ContentChannels(has_content, 1)
        n == Len(channels_sdf)
        channels_number == IF n > 3 THEN n ELSE 3
    IN  IF n > 0 /\ compute_sdf(height, width, downsample_factor).exc # "none"
        THEN [exc |-> compute_sdf(height, width, downsample_factor).exc,
              ndim |-> 0, planes |-> <<>>]
        ELSE IF n = 0 THEN [exc |-> "none", ndim |-> 2, planes |-> <<ZeroPlane>>]
        ELSE IF n = 1 THEN [exc |-> "none", ndim |-> 2, planes |-> <<SdfOf(channels_sdf[1])>>]
        ELSE [exc |-> "none", ndim |-> 3,
              planes |-> [k \in 1..channels_number |->
                            IF k <= n THEN SdfOf(channels_sdf[k]) ELSE ZeroPlane]]

\* numpy_to_image: the format of the QImage, or "None".
numpy_to_image(buf) ==
    IF buf.ndim = 2 THEN "Format_Grayscale8"
    ELSE IF buf.ndim = 3 /\ Len(buf.planes) = 4 THEN "Format_ARGB32"
    ELSE "None"

\* cfg.OUTPUT_FILE_POSTFIXES
OUTPUT_FILE_POSTFIXES ==
    [Format_Grayscale8 |-> "_SDF", Format_ARGB32 |-> "_MSDF"]

\* compute_sdf on one channel.
CallComputeSdf ==
    /\ call = NoCall
    /\ \E height \in Dims, width \in Dims, downsample_factor \in Dims :
        LET r == compute_sdf(height, width, downsample_factor)
        IN  /\ call' = [op |-> "compute_sdf", height |-> height, width |-> width,
                        downsample_factor |-> downsample_factor,
                        exc |-> r.exc, shape |-> r.shape]
            /\ UNCHANGED libFrame

\* svg_to_sdf from the rasterized image on: the conversion, the QImage, the
\* postfix and the save, which may fail and is then only logged.
CallSvgToSdf ==
    /\ call = NoCall
    /\ \E has_content \in [Channels -> BOOLEAN], height \in Dims, width \in Dims,
          downsample_factor \in Dims, saved \in BOOLEAN :
        LET r == compute_multichannel_sdf(has_content, height, width, downsample_factor,
                                          SDF_CHANNEL_MAPPING)
            format == IF r.exc = "none" THEN numpy_to_image(r) ELSE "None"
        IN  /\ call' = [op |-> "svg_to_sdf", has_content |-> has_content,
                        height |-> height, width |-> width,
                        downsample_factor |-> downsample_factor,
                        exc |-> r.exc, ndim |-> r.ndim, planes |-> r.planes,
                        format |-> format,
                        ret |-> IF format = "None" THEN "None" ELSE "output_path",
                        written |-> format # "None" /\ saved]
            /\ UNCHANGED libFrame

\* int(math.log2(n)) and math.floor(math.log2(n)) for an integer n >= 1.
RECURSIVE FloorLog2(_)
FloorLog2(n) ==
    IF n < 2 THEN 0 ELSE 1 + FloorLog2(n \div 2)

\* math.ceil(math.log2(n)) for an integer n >= 1.
CeilLog2(n) ==
    IF 2 ^ FloorLog2(n) = n THEN FloorLog2(n) ELSE FloorLog2(n) + 1

Max(a, b) ==
    IF a >= b THEN a ELSE b
Min(a, b) ==
    IF a <= b THEN a ELSE b

\* get_num_mips(width, height)
get_num_mips(width, height) ==
    FloorLog2(Max(width, height)) + 1

\* base >> mip_index
ShiftRight(n, k) ==
    n \div (2 ^ k)

\* get_all_mipmap_coordinates(atlas_width, atlas_height): the rectangles
\* (x0, y0, x1, y1), the loop carrying x_offset from one level to the next.
RECURSIVE MipCoordsFrom(_, _, _, _, _)
MipCoordsFrom(base_width, base_height, mip_index, num_mips, x_offset) ==
    IF mip_index >= num_mips THEN <<>>
    ELSE LET w == Max(ShiftRight(base_width, mip_index), 1)
             h == Max(ShiftRight(base_height, mip_index), 1)
         IN  <<[x0 |-> x_offset, y0 |-> 0, x1 |-> x_offset + w, y1 |-> h]>>
                 \o MipCoordsFrom(base_width, base_height, mip_index + 1, num_mips,
                                  x_offset + w)

get_all_mipmap_coordinates(atlas_width, atlas_height) ==
    LET base_width == atlas_width \div 2
        base_height == atlas_height
        num_mips == get_num_mips(Max(base_width, 1), Max(base_height, 1))
    IN  MipCoordsFrom(base_width, base_height, 0, num_mips, 0)

\* image[y0:y1, x0:x1] on an image of shape (height, width, 4): the shape of
\* the slice, indices beyond the image being clipped to it.
SliceShape(height, width, c) ==
    [h |-> Min(c.y1, height) - Min(c.y0, height),
     w |-> Min(c.x1, width) - Min(c.x0, width)]

\* get_mipmap_slices(image) on an atlas of shape (height, width, 4)
get_mipmap_slices(height, width) ==
    LET coords == get_all_mipmap_coordinates(width, height)
    IN  [i \in 1..Len(coords) |-> SliceShape(height, width, coords[i])]

\* mips_to_dds from the loaded atlas on: the slices, then the DDS file.
CallMipsToDds ==
    /\ call = NoCall
    /\ \E height \in 1..MaxAtlas, width \in 1..MaxAtlas :
        LET mip_slices == get_mipmap_slices(height, width)
            r == save_dds_from_mipmaps(mip_slices, NoDds)
        IN  /\ call' = [op |-> "mips_to_dds", height |-> height, width |-> width,
                        coords |-> get_all_mipmap_coordinates(width, height),
                        slices |-> mip_slices, exc |-> r.exc, dest |-> r.file]
            /\ UNCHANGED libFrame

\* 1 / threshold of nearest_power_of_2
InverseThreshold ==
    20

\* nearest_power_of_2(n, threshold = 0.05) for an integer n; the test
\* (n - lower) / lower < threshold is taken in integers.
nearest_power_of_2(n) ==
    IF n <= 0 THEN 0
    ELSE LET lower == 2 ^ FloorLog2(n)
             higher == 2 ^ CeilLog2(n)
         IN  IF InverseThreshold * (n - lower) < lower THEN lower ELSE higher

\* calculate_render_dimensions(svg_bounds, max_resolution, margin): the
\* dominant dimension and its texture size.
CallCalculateRenderDimensions ==
    /\ call = NoCall
    /\ \E max_resolution \in 1..MaxResolution, wide \in BOOLEAN :
        /\ call' = [op |-> "calculate_render_dimensions",
                    max_resolution |-> max_resolution,
                    dominant |-> IF wide THEN "texture_width" ELSE "texture_height",
                    size |-> nearest_power_of_2(max_resolution)]
        /\ UNCHANGED libFrame

\* The fields SdfProcessorConfig declares.
ConfigFields ==
    {"processing_paths", "svg_rasterization_size", "max_output_size",
     "max_relative_distance", "version"}

\* A configuration file: text that is no JSON, a JSON array, or a JSON object
\* in which each declared field has a value, is null, or is missing.
ConfigFiles ==
    {[kind |-> k, fields |-> [n \in ConfigFields |-> "missing"]] : k \in {"invalid", "array"}}
        \cup {[kind |-> "object", fields |-> f] :
                  f \in [ConfigFields -> {"value", "null", "missing"}]}

\* data.get(field.name)
dict_get(fields, name) ==
    IF fields[name] = "value" THEN "value" ELSE "None"

\* load_config(config_path): the exception raised and the fields of the
\* SdfProcessorConfig returned.  _convert_to_field returns None for None, and
\* cls(**field_values) passes every field, so no default applies.
load_config(file) ==
    IF file.kind = "invalid"
    THEN [exc |-> "JSONDecodeError", cfg |-> [n \in ConfigFields |-> "None"]]
    ELSE IF file.kind = "array"
    THEN [exc |-> "AttributeError", cfg |-> [n \in ConfigFields |-> "None"]]
    ELSE [exc |-> "none", cfg |-> [n \in ConfigFields |-> dict_get(file.fields, n)]]

CallLoadConfig ==
    /\ call = NoCall
    /\ \E file \in ConfigFiles :
        LET r == load_config(file)
        IN  /\ call' = [op |-> "load_config", file |-> file, exc |-> r.exc, cfg |-> r.cfg]
            /\ UNCHANGED libFrame

\* The call has returned or raised; the client may make the next one.
Return ==
    /\ call # NoCall
    /\ call' = NoCall
    /\ UNCHANGED libFrame

NextLib ==
    \/ CallSaveDds
    \/ CallComputeSdf
    \/ CallSvgToSdf
    \/ CallMipsToDds
    \/ CallCalculateRenderDimensions
    \/ CallLoadConfig
    \/ Return

SpecLib ==
    InitLib /\ [][NextLib]_vars

(* ------------------------- concurrent processes ------------------------ *)
\* Two processes call retrieve_metadata or refresh_metadata on one asset at
\* the same time.  Each step below is one file-system operation of one
\* process: the existence check, the load, open("w"), json.dump.  The state
\* of the processes is kept in call.procs, the uuids written to the metadata
\* path so far in call.written.
Procs ==
    {1, 2}

RaceAsset ==
    CHOOSE a \in Assets : \A b \in Assets : a <= b

RaceStart(fn, f) ==
    [op |-> "race",
     procs |-> [p \in Procs |-> [pc |-> "start", fn |-> fn[p], md |-> NoRecord,
                                 ret |-> NoRecord]],
     written |-> IF f.exists THEN <<f.uuid>> ELSE <<>>]

InitRace ==
    /\ content = [a \in Assets |-> 1]
    /\ \E k \in {"none", "ok"} :
          /\ meta = [a \in Assets |-> IF a = RaceAsset THEN StoredFile(a, k) ELSE NoFile]
          /\ \E fn \in [Procs -> {"retrieve_metadata", "refresh_metadata"}] :
                call = RaceStart(fn, StoredFile(RaceAsset, k))
    /\ outFile = [a \in Assets |-> Absent]
    /\ nextUuid = NumAssets + 1
    /\ isDir = [p \in Pairs |-> TRUE]
    /\ pc = "idle"
    /\ pairIdx = 1
    /\ pending_files = <<>>
    /\ idx = 1
    /\ exported_path = NonePy
    /\ classified = [a \in Assets |-> "-"]
    /\ failed = {}
    /\ refreshed = {}
    /\ metaWrites = [a \in Assets |-> 0]
    /\ outWritten = {}
    /\ crash = "none"
    /\ calm = 1
    /\ editsLeft = 0
    /\ runStart = [fresh |-> FALSE, recovering |-> FALSE]

\* Process p goes on from the record md that retrieve_metadata has loaded or
\* created: retrieve_metadata returns it, refresh_metadata builds the updated
\* record and goes to save it.
RaceRetrieved(p, md) ==
    IF call.procs[p].fn = "retrieve_metadata"
    THEN [call.procs[p] EXCEPT !.pc = "done", !.md = md, !.ret = md]
    ELSE [call.procs[p] EXCEPT
              !.pc = "open_refresh",
              !.md = replace_metadata(md, <<OutPath(RaceAsset)>>,
                                      calculate_checksum(content[RaceAsset]))]

\* metadata_path.exists()
RaceCheck(p) ==
    /\ call.procs[p].pc = "start"
    /\ call' = [call EXCEPT !.procs[p].pc =
                    IF meta[RaceAsset].exists THEN "load" ELSE "create"]
    /\ UNCHANGED <<meta, nextUuid, callFrame>>

\* load_metadata(metadata_path)
RaceLoad(p) ==
    /\ call.procs[p].pc = "load"
    /\ call' = IF load_metadata_exc(meta[RaceAsset]) # "none"
               THEN [call EXCEPT !.procs[p].pc = "raised"]
               ELSE [call EXCEPT !.procs[p] =
                         RaceRetrieved(p, load_metadata(meta[RaceAsset]))]
    /\ UNCHANGED <<meta, nextUuid, callFrame>>

\* create_metadata(asset_path)
RaceCreate(p) ==
    /\ call.procs[p].pc = "create"
    /\ call' = [call EXCEPT !.procs[p].pc = "open_create",
                            !.procs[p].md = create_metadata(content[RaceAsset], nextUuid)]
    /\ nextUuid' = nextUuid + 1
    /\ UNCHANGED <<meta, callFrame>>

\* save_json: file_path.open("w") truncates the file.
RaceOpen(p) ==
    /\ call.procs[p].pc \in {"open_create", "open_refresh"}
    /\ meta' = [meta EXCEPT ![RaceAsset] = OpenedFile]
    /\ call' = [call EXCEPT !.procs[p].pc =
                    IF call.procs[p].pc = "open_create" THEN "dump_create"
                    ELSE "dump_refresh"]
    /\ UNCHANGED <<nextUuid, callFrame>>

\* save_json: json.dump writes the document; the function then goes on.
RaceDump(p) ==
    /\ call.procs[p].pc \in {"dump_create", "dump_refresh"}
    /\ meta' = [meta EXCEPT ![RaceAsset] = save_metadata(call.procs[p].md)]
    /\ call' = [call EXCEPT
                    !.written = Append(@, call.procs[p].md.uuid),
                    !.procs[p] = IF call.procs[p].pc = "dump_create"
                                 THEN RaceRetrieved(p, call.procs[p].md)
                                 ELSE [@ EXCEPT !.pc = "done", !.ret = call.procs[p].md]]
    /\ UNCHANGED <<nextUuid, callFrame>>

NextRace ==
    \E p \in Procs :
        \/ RaceCheck(p)
        \/ RaceLoad(p)
        \/ RaceCreate(p)
        \/ RaceOpen(p)
        \/ RaceDump(p)

SpecRace ==
    InitRace /\ [][NextRace]_vars

(* ------------------------------- claims -------------------------------- *)
\* Assets the transform was invoked for in this run.
Transformed ==
    failed \cup outWritten

\* C1: for every pending asset whose transform fails, refresh_metadata is not
\* called: its metadata file is not written in the run, and as long as no
\* file is edited the asset is still classified NEW or MODIFIED.
C1_FailedAssetNotRefreshed ==
    \A a \in failed :
        /\ a \notin refreshed
        /\ metaWrites[a] = 0
        /\ (calm # 0 /\ content[a] # Absent) => IsPending(a)

\* C2: a failed transform is not propagated out of the loop: no run is ended
\* by an exception of the transform, so that the later assets of the pending
\* set and the later directory pairs are still processed.
C2_TransformFailureNotPropagated ==
    \A a \in failed : ~(pc = "crashed" /\ crash = "transform")

\* C3: idempotence: in a run that follows a complete run, with no file edited
\* since that run started, no directory pair has a pending asset, no metadata
\* file and no output file is written, and the run is not aborted.
C3_SecondRunIdempotent ==
    calm = 2 =>
        /\ pc \notin {"transform", "refresh", "crashed"}
        /\ outWritten = {}
        /\ \A a \in Assets : metaWrites[a] = 0

\* C4: for an existing asset get_asset_status returns NEW exactly when there is
\* no metadata file, MODIFIED exactly when there is one and its stored checksum
\* differs from the checksum of the current content, UNCHANGED exactly when
\* there is one and the two are equal.
C4_StatusExactlyByChecksum ==
    \A a \in Assets :
        content[a] # Absent =>
            /\ Status(a) = "NEW" <=> ~meta[a].exists
            /\ Status(a) = "MODIFIED" <=>
                   (meta[a].exists /\ meta[a].checksum # calculate_checksum(content[a]))
            /\ Status(a) = "UNCHANGED" <=>
                   (meta[a].exists /\ meta[a].checksum = calculate_checksum(content[a]))

\* C5: hash sensitivity: changing the content of an asset classified UNCHANGED
\* makes its status MODIFIED; the status stays MODIFIED while the content
\* stays and the metadata is not refreshed; and the refresh of a MODIFIED asset
\* stores a checksum different from the one stored before.
C5_HashSensitivity ==
    [][\A a \in Assets :
          /\ (Status(a) = "UNCHANGED" /\ content'[a] \notin {content[a], Absent})
                 => Status(a)' = "MODIFIED"
          /\ (Status(a) = "MODIFIED" /\ content'[a] = content[a])
                 => (Status(a)' = "MODIFIED" \/ (a \in refreshed' /\ meta'[a] # meta[a]))
          /\ (Status(a) = "MODIFIED" /\ meta'[a] # meta[a])
                 => meta'[a].checksum # meta[a].checksum]_vars

\* C5 witness: an asset that had a record was edited, classified MODIFIED and
\* refreshed, and is UNCHANGED again.
C5_Witness ==
    \E a \in Assets :
        /\ classified[a] = "MODIFIED"
        /\ a \in refreshed
        /\ content[a] # Absent
        /\ Status(a) = "UNCHANGED"

\* C6: the transform and refresh_metadata are invoked only for the assets
\* classified NEW or MODIFIED; the metadata file and the output file of an
\* asset classified UNCHANGED are not written during the run.
C6_OnlyPendingProcessed ==
    \A a \in Assets :
        /\ (a \in Transformed \cup refreshed \/ metaWrites[a] > 0)
               => classified[a] \in {"NEW", "MODIFIED"}
        /\ classified[a] = "UNCHANGED"
               => (a \notin Transformed /\ a \notin refreshed /\ metaWrites[a] = 0)

\* C6 witness: a run classified one asset UNCHANGED and another MODIFIED, and
\* has transformed and refreshed the MODIFIED one.
C6_Witness ==
    \E a, b \in Assets :
        /\ classified[a] = "UNCHANGED"
        /\ classified[b] = "MODIFIED"
        /\ b \in outWritten
        /\ b \in refreshed
        /\ metaWrites[b] = 1

\* C7: identifier stability: no step changes the uuid or the version of a
\* metadata file that exists, nor removes the file; and in every reachable
\* state refresh_metadata, with any override, returns and stores the uuid and
\* version already on disk, replacing exported_files and checksum only.
C7_UuidStable ==
    /\ [][\A a \in Assets :
            meta[a].exists =>
                /\ meta'[a].exists
                /\ meta'[a].uuid = meta[a].uuid
                /\ meta'[a].version = meta[a].version]_vars
    /\ [](\A a \in Assets : \A files \in Overrides(a) :
            LET r == refresh_metadata(meta[a], content[a], nextUuid, files)
            IN  (meta[a].exists /\ r.exc = "none") =>
                    /\ r.ret.uuid = meta[a].uuid
                    /\ r.file.uuid = meta[a].uuid
                    /\ r.ret.version = meta[a].version
                    /\ r.file.version = meta[a].version
                    /\ r.ret.exported_files = files)

\* C7 witness: the record of an asset was refreshed a second time, after an
\* edit, with the None of a failed transform as override.
C7_Witness ==
    \E a \in Assets :
        /\ classified[a] = "MODIFIED"
        /\ metaWrites[a] = 1
        /\ meta[a].exported_files = <<JNull>>
        /\ meta[a].uuid < nextUuid

\* C8: checksum freshness: every step that writes a metadata file leaves in it
\* the checksum of the asset's content at that time; and the record
\* retrieve_metadata creates holds calculate_checksum of the asset.
C8_ChecksumFresh ==
    /\ [][\A a \in Assets :
            meta'[a] # meta[a] =>
                /\ meta'[a].exists
                /\ content'[a] = content[a]
                /\ meta'[a].checksum = calculate_checksum(content[a])]_vars
    /\ [](\A a \in Assets :
            (content[a] # Absent /\ ~meta[a].exists) =>
                LET r == retrieve_metadata(meta[a], content[a], nextUuid)
                IN  /\ r.exc = "none"
                    /\ r.file.exists
                    /\ r.file.checksum = calculate_checksum(content[a])
                    /\ r.ret.checksum = calculate_checksum(content[a]))

\* C8 witness: a NEW asset whose content is not the initial one got its record
\* created and refreshed (two writes), and the record holds its checksum.
C8_Witness ==
    \E a \in Assets :
        /\ classified[a] = "NEW"
        /\ metaWrites[a] = 2
        /\ content[a] = MaxContent
        /\ meta[a].checksum = calculate_checksum(MaxContent)

\* C9: no skipped updates: whenever an asset is UNCHANGED and the output
\* recorded for it exists, that output was produced from the content whose
\* checksum is stored.
C9_UnchangedMeansOutputCurrent ==
    \A a \in Assets :
        (content[a] # Absent /\ Status(a) = "UNCHANGED" /\ outFile[a] # Absent)
            => calculate_checksum(outFile[a]) = meta[a].checksum

\* C10: the tool always completes: no condition met while classifying,
\* transforming or refreshing an asset raises out of the loop.
C10_RunNeverAborted ==
    pc # "crashed"

\* The record the loop leaves for asset a after a successful transform of its
\* current content.
RecordCurrent(a) ==
    /\ meta[a].exists
    /\ load_metadata_exc(meta[a]) = "none"
    /\ meta[a].checksum = calculate_checksum(content[a])
    /\ meta[a].exported_files = <<convert_for_serialization(OutPath(a))>>

\* The assets the loop enumerates: existing files of a valid source directory.
Enumerated ==
    {a \in Assets : content[a] # Absent /\ isDir[PairOf(a)]}

\* C11: crash recovery by re-running: after a run was interrupted between two
\* file-system operations, a later run that is not interrupted, whose
\* transforms succeed and during which no source file is edited, is not
\* aborted, and when it is done every enumerated asset has a parseable record
\* with the checksum of its content and the output path as exported_files.
C11_RerunRecovers ==
    (runStart.recovering /\ calm # 0) =>
        /\ pc = "crashed" => crash = "killed"
        /\ pc = "done" => \A a \in Enumerated : RecordCurrent(a)

\* C12: retrieve_metadata of an existing asset: without a metadata file it
\* creates a record with a uuid no other file holds, the checksum of the
\* current content and empty exported_files, writes it and returns it; with a
\* metadata file it returns the record as stored and writes nothing, the file
\* staying as it was whatever the content of the asset.
C12_RetrieveCreatesOrLoads ==
    (call.op = "retrieve" /\ call.c # Absent) =>
        /\ call.exc = "none"
        /\ IF ~call.pre.exists
           THEN /\ \A b \in Assets \ {call.a} :
                       meta[b].exists => meta[b].uuid # call.ret.uuid
                /\ call.ret.checksum = calculate_checksum(call.c)
                /\ call.ret.exported_files = <<>>
                /\ meta[call.a] = save_metadata(call.ret)
                /\ call.writes = 1
           ELSE /\ call.ret = load_metadata(call.pre)
                /\ meta[call.a] = call.pre
                /\ call.writes = 0

\* C13: on an asset path that does not exist retrieve_metadata and
\* refresh_metadata raise FileNotFoundError and no metadata file is created or
\* modified, whether or not the path has a metadata file.
C13_MissingAssetNotFound ==
    [][(CallRetrieve \/ CallRefresh) /\ call'.c = Absent
          => (call'.exc = "FileNotFoundError" /\ call'.writes = 0 /\ meta' = meta)]_vars

\* C13 witness: refresh_metadata was called for a missing asset whose metadata
\* file exists, raised FileNotFoundError and left the file as it was.
C13_Witness ==
    /\ call.op = "refresh"
    /\ call.c = Absent
    /\ call.pre.exists
    /\ call.exc = "FileNotFoundError"
    /\ meta[call.a] = call.pre

\* C14: get_asset_status mutates nothing: a call leaves every asset file,
\* every metadata file and every output file as it was; no metadata file is
\* created for a NEW asset.
C14_StatusNoMutation ==
    [][CallStatus => UNCHANGED <<content, meta, outFile>>]_vars

\* C14 witness: get_asset_status returned NEW for an existing asset, which
\* still has no metadata file.
C14_Witness ==
    /\ call.op = "status"
    /\ call.status = "NEW"
    /\ content[call.a] # Absent
    /\ ~meta[call.a].exists

\* C15: load_metadata raises on a metadata file that holds no valid record,
\* a JSON object without uuid or without checksum included, so that
\* get_asset_status never classifies an asset from such a record and
\* refresh_metadata never updates one.
C15_CorruptRecordRejected ==
    \A a \in Assets :
        (meta[a].exists /\ (meta[a].uuid = NoneValue \/ meta[a].checksum = NoneValue))
            => (classified[a] \notin {"MODIFIED", "UNCHANGED"} /\ a \notin refreshed)

\* The loop goes on with the directory pair after pairIdx, or ends.
GoesToNextPair ==
    /\ pc' = IF pairIdx = NumPairs THEN "done" ELSE "scan"
    /\ pairIdx' = IF pairIdx = NumPairs THEN pairIdx ELSE pairIdx + 1

Scanned ==
    {a \in Assets : PairOf(a) = pairIdx /\ content[a] # Absent}

\* C17: early exit: when every file enumerated for a directory pair is
\* classified and none is NEW or MODIFIED, the loop invokes no transform and
\* no refresh_metadata, writes no file and goes on with the next pair.
C17_EarlyExit ==
    [][(ScanPair /\ isDir[pairIdx] /\ \A a \in Scanned : Status(a) = "UNCHANGED")
          => (GoesToNextPair /\ UNCHANGED <<diskVars, failed, refreshed, metaWrites,
                                            outWritten, crash>>)]_vars

\* C17 witness: a run is done in which a directory pair held files, all of
\* them UNCHANGED, and nothing was transformed, refreshed or written.
C17_Witness ==
    /\ pc = "done"
    /\ \E a \in Assets : classified[a] = "UNCHANGED"
    /\ \A a \in Assets : classified[a] \in {"UNCHANGED", "-"}
    /\ Transformed \cup refreshed \cup outWritten = {}
    /\ \A a \in Assets : metaWrites[a] = 0

\* Position of x in the sequence files.
PosIn(files, x) ==
    CHOOSE k \in DOMAIN files : files[k] = x

\* C18: classify step: when the classification of a pair completes,
\* pending_files holds exactly the enumerated files whose status is NEW or
\* MODIFIED, each once and in enumeration order, no UNCHANGED file, and the
\* NEW and MODIFIED counts sum to its length.
C18_PendingIsSubsequence ==
    [][(ScanPair /\ isDir[pairIdx] /\ pc' # "crashed") =>
          LET files == CHOOSE f \in Glob(pairIdx) : TRUE
              pend == pending_files'
          IN  /\ \A i \in DOMAIN pend :
                    /\ \E k \in DOMAIN files : files[k] = pend[i]
                    /\ Status(pend[i]) \in {"NEW", "MODIFIED"}
              /\ \A k \in DOMAIN files :
                    Status(files[k]) \in {"NEW", "MODIFIED"}
                        => \E i \in DOMAIN pend : pend[i] = files[k]
              /\ \A i, j \in DOMAIN pend :
                    i < j => PosIn(files, pend[i]) < PosIn(files, pend[j])
              /\ status_counts(files)["NEW"] + status_counts(files)["MODIFIED"]
                     = Len(pend)]_vars

\* C18 witness: the scan of a pair with an UNCHANGED and a MODIFIED file has
\* left exactly the MODIFIED one pending.
C18_Witness ==
    /\ pc = "transform"
    /\ \E a, b \in Scanned :
          /\ classified[a] = "UNCHANGED"
          /\ classified[b] = "MODIFIED"
          /\ pending_files = <<b>>

\* C19: first run: in a run started with no metadata file, whose transforms
\* all succeed and during which no file is edited, every enumerated file is
\* classified NEW, the run is not aborted, and when it is done every
\* enumerated asset was transformed and has a metadata file with a uuid no
\* other file has, the checksum of the asset and exported_files equal to the
\* one output path; there is no other metadata file.
C19_FirstRun ==
    (runStart.fresh /\ failed = {} /\ calm # 0) =>
        /\ pc # "crashed"
        /\ \A a \in Enumerated : classified[a] \in {"NEW", "-"}
        /\ pc = "done" =>
              /\ \A a \in Enumerated :
                    /\ classified[a] = "NEW"
                    /\ a \in outWritten \cap refreshed
                    /\ RecordCurrent(a)
                    /\ \A b \in Enumerated \ {a} : meta[b].uuid # meta[a].uuid
              /\ \A a \in Assets : meta[a].exists => a \in Enumerated

\* C19 witness: a first run over at least two assets is done, every transform
\* having succeeded.
C19_Witness ==
    /\ pc = "done"
    /\ runStart.fresh
    /\ failed = {}
    /\ calm # 0
    /\ Cardinality(Enumerated) >= 2
    /\ \A a \in Enumerated : classified[a] = "NEW" /\ RecordCurrent(a)

\* C20: save/load round trip: every metadata file written during the run
\* loads, and the record refresh_metadata is about to save for the pending
\* asset, like the record it creates first, is returned unchanged by
\* load_metadata of the file save_metadata writes.
C20_SaveLoadRoundTrip ==
    /\ \A a \in Assets : metaWrites[a] > 0 => load_metadata_exc(meta[a]) = "none"
    /\ pc = "refresh" =>
          LET a == pending_files[idx]
              r == refresh_metadata(meta[a], content[a], nextUuid, <<exported_path>>)
              md == create_metadata(content[a], nextUuid)
          IN  /\ load_metadata_exc(save_metadata(md)) = "none"
              /\ load_metadata(save_metadata(md)) = md
              /\ r.exc = "none" =>
                    /\ load_metadata_exc(r.file) = "none"
                    /\ load_metadata(r.file) = r.ret

\* C21: mip-chain validation: save_dds_from_mipmaps raises ValueError and
\* leaves the destination as it was (absent, or with its old content) whenever
\* the list is empty or some level after the first has not the dimensions
\* (max(1, h // 2), max(1, w // 2)) of the level before it.
C21_InvalidChainRejected ==
    call.op = "save_dds" =>
        LET m == call.mipmaps
        IN  (m = <<>> \/ \E i \in 2..Len(m) :
                            \/ m[i].h # HalfDim(m[i - 1].h)
                            \/ m[i].w # HalfDim(m[i - 1].w))
                => (call.exc = "ValueError" /\ call.dest = call.dest_pre)

\* C21 witness: a list whose first two levels form a chain and whose third
\* does not was rejected, the existing destination file being kept.
C21_Witness ==
    /\ call.op = "save_dds"
    /\ Len(call.mipmaps) = 3
    /\ call.mipmaps[2] = [h |-> HalfDim(call.mipmaps[1].h), w |-> HalfDim(call.mipmaps[1].w)]
    /\ call.mipmaps[3].w # HalfDim(call.mipmaps[2].w)
    /\ call.dest_pre.exists
    /\ call.exc = "ValueError"
    /\ call.dest = call.dest_pre

\* The content-bearing channels of the image svg_to_sdf converted.
ContentOf(c) ==
    {i \in Channels : c.has_content[i]}

\* C22: no-signal policy: for an image whose four channels are all uniform
\* compute_multichannel_sdf returns no buffer, so svg_to_sdf returns None and
\* writes no output image.
C22_NoSignalIsFailure ==
    (call.op = "svg_to_sdf" /\ ContentOf(call) = {}) =>
        (call.ndim = 0 /\ call.ret = "None" /\ ~call.written)

\* C23: channel routing: with two or more content-bearing channels the plane
\* at channel_mapping[i] is the SDF of input channel i for every
\* content-bearing i, and every other plane is zero.
C23_ChannelRouting ==
    (call.op = "svg_to_sdf" /\ call.exc = "none" /\ Cardinality(ContentOf(call)) >= 2) =>
        /\ \A i \in ContentOf(call) :
              /\ SDF_CHANNEL_MAPPING[i] \in DOMAIN call.planes
              /\ call.planes[SDF_CHANNEL_MAPPING[i]] = SdfOf(i)
        /\ \A k \in DOMAIN call.planes :
              (\A i \in ContentOf(call) : SDF_CHANNEL_MAPPING[i] # k)
                  => call.planes[k] = ZeroPlane

\* C24: for every height, width and downsample_factor >= 1 with
\* height >= downsample_factor and width >= downsample_factor, compute_sdf
\* returns a grid of shape (height // d, width // d) without raising.
C24_DownsampleShape ==
    (/\ call.op = "compute_sdf"
     /\ call.height >= call.downsample_factor
     /\ call.width >= call.downsample_factor) =>
        /\ call.exc = "none"
        /\ call.shape = <<call.height \div call.downsample_factor,
                          call.width \div call.downsample_factor>>

\* C28: every buffer returned for an image with one to four content-bearing
\* channels is accepted by numpy_to_image and its format has a postfix, so
\* svg_to_sdf returns an output path.
C28_BufferAccepted ==
    (call.op = "svg_to_sdf" /\ call.exc = "none" /\ ContentOf(call) # {}) =>
        /\ call.format \in DOMAIN OUTPUT_FILE_POSTFIXES
        /\ call.ret = "output_path"

\* C25: loading a configuration that is no JSON object or that lacks a
\* declared field fails at load time, and load_config never returns a
\* configuration with a field that is None.
C25_MalformedConfigRejected ==
    call.op = "load_config" =>
        /\ (call.file.kind # "object" \/ \E n \in ConfigFields : call.file.fields[n] = "missing")
               => call.exc # "none"
        /\ call.exc = "none" => \A n \in ConfigFields : call.cfg[n] # "None"

\* C26: write count per pass: in one pass the metadata file of each asset
\* classified NEW or MODIFIED whose transform succeeded and that was refreshed
\* is written exactly once, and the metadata file of each asset classified
\* UNCHANGED is not written.
C26_WrittenOncePerPass ==
    \A a \in Assets :
        /\ (/\ classified[a] \in {"NEW", "MODIFIED"}
            /\ a \in outWritten
            /\ a \in refreshed
            /\ crash = "none") => metaWrites[a] = 1
        /\ classified[a] = "UNCHANGED" => metaWrites[a] = 0

\* C27: identifier stability under concurrent invocation: all records written
\* to the metadata path of the asset hold the same uuid, and once both
\* processes have ended the uuid each of them returned is the one on disk.
C27_UuidStableUnderRace ==
    call.op = "race" =>
        /\ \A i, j \in DOMAIN call.written : call.written[i] = call.written[j]
        /\ (\A p \in Procs : call.procs[p].pc \in {"done", "raised"}) =>
               \A p \in Procs :
                   call.procs[p].pc = "done" =>
                       call.procs[p].ret.uuid = meta[RaceAsset].uuid

\* C29: for every atlas of height >= 1 and width >= 2 the slices of
\* get_mipmap_slices form a chain save_dds_from_mipmaps accepts: slice 0 is
\* height x (width // 2), each later slice halves the one before it, the
\* slices take consecutive column ranges, and every slice lies inside the
\* atlas.
C29_SlicesFormChain ==
    (call.op = "mips_to_dds" /\ call.width >= 2) =>
        /\ call.slices # <<>>
        /\ call.slices[1] = [h |-> call.height, w |-> call.width \div 2]
        /\ \A i \in 2..Len(call.slices) :
              /\ call.slices[i] = [h |-> HalfDim(call.slices[i - 1].h),
                                   w |-> HalfDim(call.slices[i - 1].w)]
              /\ call.coords[i].x0 = call.coords[i - 1].x1
        /\ \A i \in 1..Len(call.slices) :
              /\ call.coords[i].x0 < call.coords[i].x1
              /\ call.coords[i].x1 <= call.width
              /\ call.coords[i].y1 <= call.height
        /\ call.exc = "none"

\* C30: for every max_resolution >= 1 the dominant texture dimension,
\* nearest_power_of_2(max_resolution), is a power of two that does not exceed
\* max_resolution.
C30_PowerOfTwoWithinMax ==
    call.op = "calculate_render_dimensions" =>
        /\ \E k \in 0..MaxResolution : call.size = 2 ^ k
        /\ call.size <= call.max_resolution

====
